---- MODULE Spec2Model ----
(***************************************************************************)
(* A model of src/crawler.py: KreamCrawler (URL normalisation, idempotent  *)
(* navigation, the login flow, opening the trade-history modal, scraping   *)
(* the rows, saving them) and crawl_product, the top-level run.            *)
(*                                                                         *)
(* Text is modelled as a sequence of one-character strings, so that        *)
(* split, rstrip, strip and the substring test are computed as Python      *)
(* computes them.  The browser is the environment: what a lookup finds,    *)
(* where a navigation lands and whether a wait times out are choices.      *)
(***************************************************************************)
EXTENDS Integers, Sequences, FiniteSets, TLC

\* ------------------------------------------------------------------ bounds
MaxUrlLen == 3
MaxCells == 3
MaxRows == 2
MaxLazy == 1

\* --------------------------------------------------------------- constants
\* len(cells) < 3: a row needs three cells
NeededCells == 3

VARIABLES
  pc,           \* the position of the running code
  url_in,       \* the argument of _normalize_url
  url_out,      \* its result
  url_out2,     \* the result of normalising the result
  current_url,  \* driver.current_url
  target_url,   \* the argument of _navigate_if_needed
  nav_desired,  \* its local desired, None before it is computed
  nav_current,  \* its local current, None before it is computed
  nav_ret,      \* where _navigate_if_needed returns to
  gets,         \* the targets of the driver.get calls made, in order
  email, password, product_url, own_driver,   \* the arguments of crawl_product
  redirect_to,  \* the argument of login_kream
  err,          \* the exception in flight, "none" when there is none
  browser_used, \* whether the driver has been sent a command in this run
  logged_in,    \* login_kream's local of that name
  email_val,    \* its local current_email_val, None before it is read
  pw_val,       \* its local current_pw_val, None before it is read
  fills,        \* how many times login_kream has filled the two inputs
  submits,      \* how many times it has sent RETURN to the password input
  clickable,    \* _click_details_button's local: what it clicks on
  clicks,       \* the clicks it has made, in order
  soft,         \* the soft failures logged so far
  steps,        \* the steps of the run begun so far, in order
  dom_rows,     \* the rows the page has rendered
  dom_lazy,     \* how many more rows scrolling to the bottom would render
  rows,         \* scrape_trade_history's local list of row elements
  idx,          \* the position of its for loop in rows
  records,      \* its local list of records
  result,       \* whether it has returned to crawl_product, and what
  saved,        \* the record lists written to a file by save_to_excel
  quits         \* how many times driver.quit was called

urlVars == <<url_in, url_out, url_out2>>
navVars == <<current_url, target_url, nav_desired, nav_current, nav_ret, gets>>
inputVars == <<email, password, product_url, own_driver, redirect_to>>
flowVars == <<err, browser_used, logged_in, email_val, pw_val, fills, submits, clickable, clicks, soft, steps>>
scrapeVars == <<dom_rows, dom_lazy, rows, idx, records, result>>
endVars == <<saved, quits>>
vars == <<pc, urlVars, navVars, inputVars, flowVars, scrapeVars, endVars>>

\* ------------------------------------------------------------------- text
\* Optional[str]: None is a value apart from every text.
None == <<"None">>

\* Python's truth test of an Optional[str].
Falsy(s) == s = None \/ s = <<>>

Min(S) == CHOOSE x \in S : \A y \in S : x <= y

\* All sequences over A of length at most n.
SeqsUpTo(A, n) == UNION {[1..k -> A] : k \in 0..n}

\* s.split("?", 1)[0]: the text before the first "?", all of s when it has none.
SplitFirst(s) ==
  LET q == {i \in 1..Len(s) : s[i] = "?"}
  IN  IF q = {} THEN s ELSE SubSeq(s, 1, Min(q) - 1)

\* a slip: at most one trailing "/" is removed
RStripOne(s) ==
  IF s # <<>> /\ s[Len(s)] = "/" THEN SubSeq(s, 1, Len(s) - 1) ELSE s

\* s.rstrip("/"): every trailing "/" is removed.
RECURSIVE RStripSlash(_)
RStripSlash(s) ==
  IF s # <<>> /\ s[Len(s)] = "/" THEN RStripSlash(SubSeq(s, 1, Len(s) - 1)) ELSE s

\* a slip: the slashes are stripped before the query is cut off
NormalizeStripFirst(url) ==
  IF Falsy(url) THEN <<>> ELSE SplitFirst(RStripSlash(url))

\* KreamCrawler._normalize_url
Normalize(url) ==
  IF Falsy(url) THEN <<>> ELSE RStripSlash(SplitFirst(url))

\* Python's `marker in s` on texts.
Contains(s, marker) ==
  \E i \in 1..(Len(s) - Len(marker) + 1) : SubSeq(s, i, i + Len(marker) - 1) = marker

\* ------------------------------------------------------------------- urls
UrlChars == {"a", "/", "?"}
Urls == SeqsUpTo(UrlChars, MaxUrlLen)

\* "kream.co.kr/login", the text login_kream looks for in the location
LoginMarker == <<"k", "/", "l">>
\* "https://kream.co.kr/login"
LoginUrl == <<"h", "k", "/", "l">>
\* a product page, as "https://kream.co.kr/products/83900"
ProductUrl == <<"h", "k", "/", "p">>


\* Where the browser can be once a load of t has finished: at t as given, at its
\* canonical form, or bounced to the login page.
Lands(t) == {t, Normalize(t), LoginUrl}

\* scrape_trade_history has not returned.
NoResult == [returned |-> FALSE, records |-> <<>>]

\* ------------------------------------------------- the idle parts of a state
UrlIdle == url_in = None /\ url_out = None /\ url_out2 = None
NavIdle ==
  /\ target_url = None /\ nav_desired = None /\ nav_current = None
  /\ nav_ret = "none" /\ gets = <<>>
InputIdle ==
  /\ email = "" /\ password = "" /\ product_url = None /\ own_driver = FALSE
  /\ redirect_to = None
FlowIdle ==
  /\ err = "none" /\ browser_used = FALSE /\ logged_in = FALSE
  /\ email_val = "None" /\ pw_val = "None"
  /\ fills = 0 /\ submits = 0 /\ clickable = "none" /\ clicks = <<>>
  /\ soft = <<>> /\ steps = <<>>
ScrapeIdle ==
  /\ dom_rows = <<>> /\ dom_lazy = 0 /\ rows = <<>> /\ idx = 0
  /\ records = <<>> /\ result = NoResult
EndIdle == saved = <<>> /\ quits = 0

\* --------------------------------------------------------- _normalize_url
\* _normalize_url applied to an argument.
NormalizeCall ==
  /\ pc = "normalize"
  /\ url_out' = Normalize(url_in)
  /\ pc' = "normalized"
  /\ UNCHANGED <<url_in, url_out2, navVars, inputVars, flowVars, scrapeVars, endVars>>

\* _normalize_url applied to its own result.
NormalizeAgain ==
  /\ pc = "normalized"
  /\ url_out2' = Normalize(url_out)
  /\ pc' = "renormalized"
  /\ UNCHANGED <<url_in, url_out, navVars, inputVars, flowVars, scrapeVars, endVars>>

InitNormalize ==
  /\ pc = "normalize"
  /\ url_in \in Urls \cup {None}
  /\ url_out = None /\ url_out2 = None
  /\ current_url = <<>>
  /\ NavIdle /\ InputIdle /\ FlowIdle /\ ScrapeIdle /\ EndIdle

NextNormalize == NormalizeCall \/ NormalizeAgain

SpecNormalize == InitNormalize /\ [][NextNormalize]_vars

\* ----------------------------------------------------- _navigate_if_needed
\* a slip: an empty normalised target counts as "already there"
AlreadyThereUnguarded(desired, current) == desired = current

\* `desired and desired == current`
AlreadyThere(desired, current) == desired # <<>> /\ desired = current

\* _navigate_if_needed up to its wait: the early returns, else driver.get.
NavCheck ==
  /\ pc = "nav_check"
  /\ IF Falsy(target_url)
       THEN /\ pc' = nav_ret
            /\ UNCHANGED <<current_url, nav_desired, nav_current, gets, browser_used>>
       ELSE /\ nav_desired' = Normalize(target_url)
            /\ nav_current' = Normalize(current_url)
            /\ IF AlreadyThere(nav_desired', nav_current')
                 THEN /\ pc' = nav_ret
                      /\ browser_used' = TRUE
                      /\ UNCHANGED <<current_url, gets>>
                 ELSE /\ gets' = Append(gets, target_url)
                      /\ browser_used' = TRUE
                      /\ \E l \in Lands(target_url) : current_url' = l
                      /\ pc' = "nav_wait"
  /\ UNCHANGED <<target_url, nav_ret, urlVars, inputVars, err, logged_in, email_val, pw_val, fills, submits,
                 clickable, clicks, soft, steps, scrapeVars, endVars>>

\* a slip: the timeout of the wait after driver.get is not caught
NavWaitFatal ==
  /\ pc = "nav_wait"
  /\ \E l \in Lands(target_url) :
       /\ current_url' = l
       /\ IF Normalize(l) = nav_desired
            THEN soft' = soft /\ pc' = nav_ret /\ UNCHANGED err
            ELSE /\ soft' = Append(soft, "navigation")
                 /\ err' = "TimeoutException"
                 /\ pc' = "crawl_finally"
  /\ browser_used' = TRUE
  /\ UNCHANGED <<target_url, nav_desired, nav_current, nav_ret, gets, urlVars, inputVars,
                 logged_in, email_val, pw_val, fills, submits, clickable, clicks, steps,
                 scrapeVars, endVars>>

\* The wait after driver.get: the location comes to equal the normalised target,
\* or the wait times out, which is logged and nothing more.
NavWait ==
  /\ pc = "nav_wait"
  /\ \E l \in Lands(target_url) :
       /\ current_url' = l
       /\ IF Normalize(l) = nav_desired
            THEN soft' = soft
            ELSE soft' = Append(soft, "navigation")
  /\ browser_used' = TRUE
  /\ pc' = nav_ret
  /\ UNCHANGED <<target_url, nav_desired, nav_current, nav_ret, gets, urlVars, inputVars,
                 err, logged_in, email_val, pw_val, fills, submits, clickable, clicks, steps, scrapeVars, endVars>>

InitNavigate ==
  /\ pc = "nav_check"
  /\ target_url \in Urls \cup {None}
  /\ current_url \in Urls
  /\ nav_desired = None /\ nav_current = None
  /\ nav_ret = "nav_done" /\ gets = <<>>
  /\ UrlIdle /\ InputIdle /\ FlowIdle /\ ScrapeIdle /\ EndIdle

NextNavigate == NavCheck \/ NavWait

SpecNavigate == InitNavigate /\ [][NextNavigate]_vars

\* ---------------------------------------------------------------- the run
\* the site's front page
HomeUrl == <<"h", "k">>
\* the page of a browser that has loaded nothing yet
BlankUrl == <<"d">>
\* The product pages a run is given: plain, with a query, with a trailing "/".
ProductUrls == {ProductUrl, ProductUrl \o <<"?", "q">>, ProductUrl \o <<"/">>}
\* Where a load of the login page can end: there, or at the front page.
LoginLands == {LoginUrl, HomeUrl}
\* Where the browser can be after the form was submitted.
AfterSubmit == {LoginUrl, HomeUrl, ProductUrl}

\* crawl_product up to login_kream's first statement: the driver is the caller's
\* or a new one, the crawler is built, open_product_and_modal starts step 1.
CrawlStart ==
  /\ pc = "crawl_start"
  /\ steps' = Append(steps, "login")
  /\ redirect_to' = product_url
  /\ pc' = "login_check"
  /\ UNCHANGED <<urlVars, navVars, email, password, product_url, own_driver, err,
                 browser_used, logged_in, email_val, pw_val, fills, submits, clickable, clicks, soft, scrapeVars,
                 endVars>>

\* RuntimeError("Email or password is empty.")
ErrNoCredentials == "RuntimeError: Email or password is empty."
\* RuntimeError("Could not find the ... button.")
ErrNoButton == "RuntimeError: Could not find the button."

\* a slip: only the email is tested
CredentialsMissingEmailOnly(e, p) == e = ""

\* `not email or not password`
CredentialsMissing(e, p) == e = "" \/ p = ""

\* login_kream: `if not email or not password: raise RuntimeError`, else the
\* first read of driver.current_url.
LoginCheck ==
  /\ pc = "login_check"
  /\ IF CredentialsMissing(email, password)
       THEN /\ err' = ErrNoCredentials
            /\ pc' = "crawl_finally"
            /\ UNCHANGED browser_used
       ELSE /\ browser_used' = TRUE
            /\ pc' = "login_link"
            /\ UNCHANGED err
  /\ UNCHANGED <<urlVars, navVars, inputVars, logged_in, email_val, pw_val, fills, submits, clickable, clicks, soft,
                 steps, scrapeVars, endVars>>

\* login_kream step 1: the top login link is looked up and clicked; a lookup or
\* a click that raises is caught and ignored.
LoginLink ==
  /\ pc = "login_link"
  /\ \/ /\ browser_used' = TRUE
        /\ UNCHANGED current_url
     \/ /\ browser_used' = TRUE
        /\ \E l \in {current_url, LoginUrl} : current_url' = l
  /\ pc' = "login_ensure"
  /\ UNCHANGED <<urlVars, target_url, nav_desired, nav_current, nav_ret, gets, inputVars,
                 err, logged_in, email_val, pw_val, fills, submits, clickable, clicks, soft, steps, scrapeVars,
                 endVars>>

\* a slip: the login page is loaded wherever the browser is
LoginEnsureAlways ==
  /\ pc = "login_ensure"
  /\ gets' = Append(gets, LoginUrl)
  /\ \E l \in LoginLands : current_url' = l
  /\ browser_used' = TRUE
  /\ pc' = "login_form"
  /\ UNCHANGED <<urlVars, target_url, nav_desired, nav_current, nav_ret, inputVars, err,
                 logged_in, email_val, pw_val, fills, submits, clickable, clicks, soft,
                 steps, scrapeVars, endVars>>

\* login_kream step 2: driver.get of the login page unless the location holds
\* "kream.co.kr/login".
LoginEnsure ==
  /\ pc = "login_ensure"
  /\ IF ~Contains(current_url, LoginMarker)
       THEN /\ gets' = Append(gets, LoginUrl)
            /\ \E l \in LoginLands : current_url' = l
            /\ browser_used' = TRUE
       ELSE /\ browser_used' = TRUE
            /\ UNCHANGED <<gets, current_url>>
  /\ pc' = "login_form"
  /\ UNCHANGED <<urlVars, target_url, nav_desired, nav_current, nav_ret, inputVars, err,
                 logged_in, email_val, pw_val, fills, submits, clickable, clicks, soft, steps, scrapeVars, endVars>>

\* login_kream step 3, after the sleep: the wait for the email input, which
\* raises TimeoutException, and the lookup of the password input, which raises
\* NoSuchElementException; neither is caught.
LoginForm ==
  /\ pc = "login_form"
  /\ \/ /\ browser_used' = TRUE
        /\ pc' = "login_fill"
        /\ UNCHANGED err
     \/ /\ browser_used' = TRUE
        /\ err' = "TimeoutException"
        /\ pc' = "crawl_finally"
     \/ /\ browser_used' = TRUE
        /\ err' = "NoSuchElementException"
        /\ pc' = "crawl_finally"
  /\ UNCHANGED <<urlVars, navVars, inputVars, logged_in, email_val, pw_val, fills, submits, clickable, clicks, soft,
                 steps, scrapeVars, endVars>>

\* a slip: `and` for `or`
NeedsRefillBoth(ev, pv) == ev # email /\ pv = ""

\* `current_email_val != email or not current_pw_val`
NeedsRefill(ev, pv) == ev # email \/ pv = ""

\* login_kream steps 4 and 4.1: fill both inputs, sleep, read both values back;
\* when the page has changed them, look both inputs up again (not caught when
\* it raises) and fill them once more.
LoginFill ==
  /\ pc = "login_fill"
  /\ \E ev \in {email, ""}, pv \in {password, ""} :
       /\ email_val' = ev
       /\ pw_val' = pv
       /\ IF NeedsRefill(ev, pv)
            THEN \/ /\ fills' = fills + 2
                    /\ browser_used' = TRUE
                    /\ pc' = "login_submit"
                    /\ UNCHANGED err
                 \/ /\ fills' = fills + 1
                    /\ browser_used' = TRUE
                    /\ err' = "NoSuchElementException"
                    /\ pc' = "crawl_finally"
            ELSE /\ fills' = fills + 1
                 /\ browser_used' = TRUE
                 /\ pc' = "login_submit"
                 /\ UNCHANGED err
  /\ UNCHANGED <<urlVars, navVars, inputVars, logged_in, submits, clickable, clicks, soft, steps,
                 scrapeVars, endVars>>

\* login_kream step 5: RETURN is sent to the password input.
LoginSubmit ==
  /\ pc = "login_submit"
  /\ submits' = submits + 1
  /\ browser_used' = TRUE
  /\ pc' = "login_wait"
  /\ UNCHANGED <<urlVars, navVars, inputVars, err, logged_in, email_val, pw_val, fills, clickable, clicks, soft, steps,
                 scrapeVars, endVars>>

\* a slip: after a timeout the location is not read again
LoginWaitNoReread ==
  /\ pc = "login_wait"
  /\ \/ \E l \in AfterSubmit :
          /\ ~Contains(l, LoginMarker)
          /\ current_url' = l
          /\ logged_in' = TRUE
          /\ UNCHANGED soft
     \/ \E l \in AfterSubmit :
          /\ current_url' = l
          /\ logged_in' = FALSE
          /\ soft' = Append(soft, "login")
  /\ browser_used' = TRUE
  /\ pc' = "login_redirect"
  /\ UNCHANGED <<urlVars, target_url, nav_desired, nav_current, nav_ret, gets, inputVars,
                 err, email_val, pw_val, fills, submits, clickable, clicks, steps,
                 scrapeVars, endVars>>

\* login_kream step 6: the wait until the location no longer holds
\* "kream.co.kr/login"; on a timeout the location is read once more and
\* logged_in is whether that read is off the login page.
LoginWait ==
  /\ pc = "login_wait"
  /\ \/ \E l \in AfterSubmit :
          /\ ~Contains(l, LoginMarker)
          /\ current_url' = l
          /\ logged_in' = TRUE
          /\ UNCHANGED soft
     \/ \E l \in AfterSubmit :
          /\ current_url' = l
          /\ logged_in' = ~Contains(l, LoginMarker)
          /\ soft' = Append(soft, "login")
  /\ browser_used' = TRUE
  /\ pc' = "login_redirect"
  /\ UNCHANGED <<urlVars, target_url, nav_desired, nav_current, nav_ret, gets, inputVars,
                 err, email_val, pw_val, fills, submits, clickable, clicks, steps, scrapeVars, endVars>>

\* a slip: the product page is preferred to the redirect target
TargetAfterLoginProductFirst(redirect, product) ==
  IF Falsy(product) THEN redirect ELSE product

\* `redirect_to or self.product_url`
TargetAfterLogin(redirect, product) ==
  IF Falsy(redirect) THEN product ELSE redirect

\* login_kream step 7: `redirect_to or self.product_url`, passed to
\* _navigate_if_needed when it is not empty and logged_in holds.
LoginRedirect ==
  /\ pc = "login_redirect"
  /\ LET target_after_login == TargetAfterLogin(redirect_to, product_url)
     IN  IF ~Falsy(target_after_login) /\ logged_in
           THEN /\ target_url' = target_after_login
                /\ nav_desired' = None /\ nav_current' = None
                /\ nav_ret' = "login_redirected"
                /\ pc' = "nav_check"
           ELSE /\ pc' = "opm_recheck"
                /\ UNCHANGED <<target_url, nav_desired, nav_current, nav_ret>>
  /\ UNCHANGED <<urlVars, current_url, gets, inputVars, flowVars, scrapeVars, endVars>>

\* login_kream's last print, which reads the location; login_kream returns.
\* a slip: the flow goes from the login straight to the click
LoginRedirectedSkipsRecheck ==
  /\ pc = "login_redirected"
  /\ browser_used' = TRUE
  /\ pc' = "opm_click"
  /\ UNCHANGED <<urlVars, navVars, inputVars, err, logged_in, email_val, pw_val, fills,
                 submits, clickable, clicks, soft, steps, scrapeVars, endVars>>

LoginRedirected ==
  /\ pc = "login_redirected"
  /\ browser_used' = TRUE
  /\ pc' = "opm_recheck"
  /\ UNCHANGED <<urlVars, navVars, inputVars, err, logged_in, email_val, pw_val, fills, submits, clickable, clicks,
                 soft, steps, scrapeVars, endVars>>

\* login_kream called on its own, as test_login.py calls it: with or without a
\* redirect target, in a browser the caller has already used.  It has returned
\* at "opm_recheck" and raised at "crawl_finally".
InitLogin ==
  /\ pc = "login_check"
  /\ email \in {"", "e"}
  /\ password \in {"", "p"}
  /\ product_url \in ProductUrls \cup {<<>>}
  /\ redirect_to \in {None, HomeUrl}
  /\ own_driver = FALSE
  /\ current_url \in {BlankUrl, ProductUrl, LoginUrl}
  /\ UrlIdle /\ NavIdle /\ FlowIdle /\ ScrapeIdle /\ EndIdle

NextLogin ==
  \/ LoginCheck \/ LoginLink \/ LoginEnsure \/ LoginForm \/ LoginFill \/ LoginSubmit
  \/ LoginWait \/ LoginRedirect \/ LoginRedirected \/ NavCheck \/ NavWait

SpecLogin == InitLogin /\ [][NextLogin]_vars

\* open_product_and_modal step 2: _navigate_if_needed(self.product_url).
OpmRecheck ==
  /\ pc = "opm_recheck"
  /\ steps' = Append(steps, "recheck")
  /\ browser_used' = TRUE
  /\ target_url' = product_url
  /\ nav_desired' = None /\ nav_current' = None
  /\ nav_ret' = "opm_click"
  /\ pc' = "nav_check"
  /\ UNCHANGED <<urlVars, current_url, gets, inputVars, err, logged_in, email_val, pw_val, fills, submits,
                 clickable, clicks, soft, scrapeVars, endVars>>

\* _click_details_button up to its click: the wait for the text element, which
\* on a timeout raises RuntimeError; the scroll; the lookup of a clickable
\* ancestor, the element itself when there is none.
ClickLocate ==
  /\ pc = "opm_click"
  /\ steps' = Append(steps, "click")
  /\ \/ /\ browser_used' = TRUE
        /\ err' = ErrNoButton
        /\ pc' = "crawl_finally"
        /\ UNCHANGED clickable
     \/ /\ browser_used' = TRUE
        /\ \E c \in {"ancestor", "element"} : clickable' = c
        /\ pc' = "click_activate"
        /\ UNCHANGED err
  /\ UNCHANGED <<urlVars, navVars, inputVars, logged_in, email_val, pw_val, fills, submits, clicks, soft,
                 scrapeVars, endVars>>

\* _click_details_button's click: the ActionChains click, and when that raises
\* the JS click on the same element.  What the JS click raises is not caught,
\* except a TimeoutException, which the outer handler turns into RuntimeError.
ClickActivate ==
  /\ pc = "click_activate"
  /\ \/ /\ clicks' = clicks \o <<[how |-> "pointer", on |-> clickable]>>
        /\ browser_used' = TRUE
        /\ pc' = "modal_wait"
        /\ UNCHANGED err
     \/ /\ clicks' = clicks \o <<[how |-> "pointer", on |-> clickable],
                                 [how |-> "dom", on |-> clickable]>>
        /\ browser_used' = TRUE
        /\ \/ pc' = "modal_wait" /\ UNCHANGED err
           \/ pc' = "crawl_finally" /\ err' = "WebDriverException"
           \/ pc' = "crawl_finally" /\ err' = ErrNoButton
  /\ UNCHANGED <<urlVars, navVars, inputVars, logged_in, email_val, pw_val, fills, submits, clickable, soft,
                 steps, scrapeVars, endVars>>

\* a slip: the timeout of the wait for the modal's text is not caught
ModalWaitFatal ==
  /\ pc = "modal_wait"
  /\ steps' = Append(steps, "modal_wait")
  /\ \/ /\ pc' = "scrape_container"
        /\ UNCHANGED <<soft, err>>
     \/ /\ soft' = Append(soft, "modal")
        /\ err' = "TimeoutException"
        /\ pc' = "crawl_finally"
  /\ browser_used' = TRUE
  /\ UNCHANGED <<urlVars, navVars, inputVars, logged_in, email_val, pw_val, fills, submits, clickable,
                 clicks, scrapeVars, endVars>>

\* open_product_and_modal step 4: the wait for the modal's text; a timeout is
\* printed and nothing more.
ModalWait ==
  /\ pc = "modal_wait"
  /\ steps' = Append(steps, "modal_wait")
  /\ \/ UNCHANGED soft
     \/ soft' = Append(soft, "modal")
  /\ browser_used' = TRUE
  /\ pc' = "scrape_container"
  /\ UNCHANGED <<urlVars, navVars, inputVars, err, logged_in, email_val, pw_val, fills, submits, clickable,
                 clicks, scrapeVars, endVars>>

\* ------------------------------------------------------------------- rows
\* a cell's text: white space only
BlankCell == <<" ">>
Digits == <<"1", "2", "3", "4", "5", "6", "7", "8", "9">>
\* a cell's text: the value of column i, with white space after it
ValueCell(i) == <<Digits[i], " ">>

\* A row element: the texts of its cells, and whether the element is stale, so
\* that every call on it raises.
Row(cells, stale) == [cells |-> cells, stale |-> stale]
StaleRow == Row(<<>>, TRUE)
CellSeqs ==
  UNION {{[i \in 1..k |-> IF i \in filled THEN ValueCell(i) ELSE BlankCell] :
            filled \in SUBSET (1..k)} : k \in 0..MaxCells}
AllRows == {Row(c, FALSE) : c \in CellSeqs} \cup {StaleRow}
AllDoms == SeqsUpTo(AllRows, MaxRows)

\* The rows of the runs: a trade, a decorative row of blank cells, a stale row.
TradeRow == Row(<<ValueCell(1), ValueCell(2), ValueCell(3)>>, FALSE)
FlowRows == {TradeRow, Row(<<BlankCell, BlankCell, BlankCell>>, FALSE), StaleRow}
FlowDoms == SeqsUpTo(FlowRows, MaxRows)

\* str.strip(): the white space at both ends is removed.
RECURSIVE LStrip(_)
LStrip(s) == IF s # <<>> /\ s[1] = " " THEN LStrip(Tail(s)) ELSE s
RECURSIVE RStrip(_)
RStrip(s) ==
  IF s # <<>> /\ s[Len(s)] = " " THEN RStrip(SubSeq(s, 1, Len(s) - 1)) ELSE s
Strip(s) == RStrip(LStrip(s))

\* The body of the for loop's try, for a row whose calls do not raise: no
\* record for fewer than three cells or three blank texts, else the record of
\* the first three cells' stripped texts.
RowRecords(row) ==
  IF Len(row.cells) < NeededCells THEN <<>>
  ELSE LET size == Strip(row.cells[1])
           price == Strip(row.cells[2])
           date == Strip(row.cells[3])
       IN  IF size = <<>> /\ price = <<>> /\ date = <<>> THEN <<>>
           ELSE <<[size |-> size, price |-> price, date |-> date]>>

\* --------------------------------------------------- scrape_trade_history
\* a slip: the timeout of the wait for the container is caught, and the scrape
\* goes on with the rows it finds
ScrapeContainerCaught(Doms) ==
  /\ pc = "scrape_container"
  /\ steps' = Append(steps, "scrape")
  /\ browser_used' = TRUE
  /\ \/ /\ \E d \in Doms, z \in 0..MaxLazy : dom_rows' = d /\ dom_lazy' = z
        /\ UNCHANGED err
     \/ /\ err' = "TimeoutException"
        /\ UNCHANGED <<dom_rows, dom_lazy>>
  /\ pc' = "scrape_rows"
  /\ UNCHANGED <<urlVars, navVars, inputVars, logged_in, email_val, pw_val, fills, submits, clickable,
                 clicks, soft, rows, idx, records, result, endVars>>

\* scrape_trade_history step 1, after the sleep: the wait for
\* div.market_price_table, whose TimeoutException is not caught.  Doms are the
\* pages the browser may show.
ScrapeContainer(Doms) ==
  /\ pc = "scrape_container"
  /\ steps' = Append(steps, "scrape")
  /\ browser_used' = TRUE
  /\ \/ /\ \E d \in Doms, z \in 0..MaxLazy : dom_rows' = d /\ dom_lazy' = z
        /\ pc' = "scrape_rows"
        /\ UNCHANGED err
     \/ /\ err' = "TimeoutException"
        /\ pc' = "crawl_finally"
        /\ UNCHANGED <<dom_rows, dom_lazy>>
  /\ UNCHANGED <<urlVars, navVars, inputVars, logged_in, email_val, pw_val, fills, submits, clickable,
                 clicks, soft, rows, idx, records, result, endVars>>

\* scrape_trade_history step 2: container.find_elements, once; records = [].
ScrapeReadRows ==
  /\ pc = "scrape_rows"
  /\ rows' = dom_rows
  /\ idx' = 0
  /\ records' = <<>>
  /\ browser_used' = TRUE
  /\ pc' = "scrape_row"
  /\ UNCHANGED <<urlVars, navVars, inputVars, err, logged_in, email_val, pw_val, fills, submits, clickable,
                 clicks, soft, steps, dom_rows, dom_lazy, result, endVars>>

\* a slip: the exception of a row is not caught and ends the scrape
ScrapeRowPropagating ==
  /\ pc = "scrape_row"
  /\ idx < Len(rows)
  /\ LET row == rows[idx + 1]
     IN  IF row.stale
           THEN /\ err' = "StaleElementReferenceException"
                /\ pc' = "crawl_finally"
                /\ UNCHANGED <<records, idx>>
           ELSE /\ records' = records \o RowRecords(row)
                /\ idx' = idx + 1
                /\ UNCHANGED <<err, pc>>
  /\ browser_used' = TRUE
  /\ UNCHANGED <<urlVars, navVars, inputVars, logged_in, email_val, pw_val, fills, submits, clickable,
                 clicks, soft, steps, dom_rows, dom_lazy, rows, result, endVars>>

\* One iteration of `for row in rows`: the try body, and `except Exception:
\* continue` for a row whose calls raise.
ScrapeRow ==
  /\ pc = "scrape_row"
  /\ idx < Len(rows)
  /\ LET row == rows[idx + 1]
     IN  IF row.stale
           THEN UNCHANGED records
           ELSE records' = records \o RowRecords(row)
  /\ idx' = idx + 1
  /\ browser_used' = TRUE
  /\ UNCHANGED <<pc, urlVars, navVars, inputVars, err, logged_in, email_val, pw_val, fills, submits,
                 clickable, clicks, soft, steps, dom_rows, dom_lazy, rows, result,
                 endVars>>

\* The loop is over: `return records`.
ScrapeReturn ==
  /\ pc = "scrape_row"
  /\ idx = Len(rows)
  /\ result' = [returned |-> TRUE, records |-> records]
  /\ pc' = "save"
  /\ UNCHANGED <<urlVars, navVars, inputVars, flowVars, dom_rows, dom_lazy, rows, idx,
                 records, endVars>>

InitScrape ==
  /\ pc = "scrape_container"
  /\ current_url = ProductUrl
  /\ UrlIdle /\ NavIdle /\ InputIdle /\ FlowIdle /\ ScrapeIdle /\ EndIdle

NextScrape ==
  ScrapeContainer(AllDoms) \/ ScrapeReadRows \/ ScrapeRow \/ ScrapeReturn

SpecScrape == InitScrape /\ [][NextScrape]_vars

\* ------------------------------------------------ save_to_excel and the end
\* a slip: the file is written for an empty list too
SaveAlways ==
  /\ pc = "save"
  /\ steps' = Append(steps, "save")
  /\ saved' = Append(saved, result.records)
  /\ pc' = "crawl_finally"
  /\ UNCHANGED <<urlVars, navVars, inputVars, err, browser_used, logged_in, email_val,
                 pw_val, fills, submits, clickable, clicks, soft, scrapeVars, quits>>

\* save_to_excel: nothing is written for an empty list, else the records are
\* written to the file.
Save ==
  /\ pc = "save"
  /\ steps' = Append(steps, "save")
  /\ saved' = IF result.records = <<>> THEN saved ELSE Append(saved, result.records)
  /\ pc' = "crawl_finally"
  /\ UNCHANGED <<urlVars, navVars, inputVars, err, browser_used, logged_in, email_val, pw_val, fills, submits,
                 clickable, clicks, soft, scrapeVars, quits>>

\* crawl_product's finally: driver.quit() when the driver is its own; then the
\* exception in flight, if any, goes on to the caller.
\* a slip: the browser is closed only after a run without an error
CrawlFinallyOnSuccess ==
  /\ pc = "crawl_finally"
  /\ quits' = IF own_driver /\ err = "none" THEN quits + 1 ELSE quits
  /\ pc' = IF err = "none" THEN "done" ELSE "raised"
  /\ UNCHANGED <<urlVars, navVars, inputVars, flowVars, scrapeVars, saved>>

\* crawl_product's finally: driver.quit() when crawl_product made the driver.
CrawlFinally ==
  /\ pc = "crawl_finally"
  /\ quits' = IF own_driver THEN quits + 1 ELSE quits
  /\ pc' = IF err = "none" THEN "done" ELSE "raised"
  /\ UNCHANGED <<urlVars, navVars, inputVars, flowVars, scrapeVars, saved>>

Init ==
  /\ pc = "crawl_start"
  /\ email \in {"", "e"}
  /\ password \in {"", "p"}
  /\ product_url \in ProductUrls
  /\ own_driver \in BOOLEAN
  /\ redirect_to = None
  /\ current_url \in (IF own_driver THEN {BlankUrl} ELSE {BlankUrl, ProductUrl, LoginUrl})
  /\ UrlIdle /\ NavIdle /\ FlowIdle /\ ScrapeIdle /\ EndIdle

Next ==
  \/ CrawlStart \/ LoginCheck \/ LoginLink \/ LoginEnsure \/ LoginForm \/ LoginFill
  \/ LoginSubmit \/ LoginWait \/ LoginRedirect \/ LoginRedirected \/ OpmRecheck
  \/ NavCheck \/ NavWait \/ ClickLocate \/ ClickActivate \/ ModalWait
  \/ ScrapeContainer(FlowDoms) \/ ScrapeReadRows \/ ScrapeRow \/ ScrapeReturn
  \/ Save \/ CrawlFinally

Spec == Init /\ [][Next]_vars

\* ================================================================= claims

\* C1: once _normalize_url has returned, its result is the empty text for an
\* empty or absent url, and otherwise the url cut before its first "?" with the
\* trailing "/" removed: a prefix of the url that does not end in "/", followed
\* in the url by nothing but "/" up to the first "?" or the end; and the three
\* forms "a?a", "a/" and "a" of one page all give "a".
C1_NormalizeContract ==
  pc \in {"normalized", "renormalized"} =>
    /\ Falsy(url_in) => url_out = <<>>
    /\ ~Falsy(url_in) =>
         \E k \in 0..Len(url_in) :
           /\ \A i \in 1..k : url_in[i] # "?"
           /\ k = Len(url_in) \/ url_in[k + 1] = "?"
           /\ \E m \in 0..k :
                /\ url_out = [i \in 1..m |-> url_in[i]]
                /\ \A i \in (m + 1)..k : url_in[i] = "/"
                /\ m = 0 \/ url_in[m] # "/"
    /\ url_in \in {<<"a", "?", "a">>, <<"a", "/">>, <<"a">>} => url_out = <<"a">>

\* C1 witness: a url with both a trailing "/" and a query has been normalised.
C1_Witness ==
  pc = "normalized" /\ url_in = <<"a", "/", "?">> /\ url_out = <<"a">>

\* C2: normalising the result of _normalize_url gives that result again.
C2_Idempotent == pc = "renormalized" => url_out2 = url_out

\* C2 witness: a url with a "/" before its query has been normalised twice.
C2_Witness ==
  pc = "renormalized" /\ url_in = <<"/", "a", "/">> /\ url_out2 = <<"/", "a">>

\* C3 as stated: _navigate_if_needed makes no driver.get call when the target is
\* absent or the normalised target equals the normalised location, the case of
\* both being empty included.
C3_NoGetWhenEqual ==
  pc = "nav_done" /\ (Falsy(target_url) \/ Normalize(target_url) = nav_current)
    => gets = <<>>

\* C3 as amended: no driver.get call when the target is absent or empty, or when
\* the normalised target is not empty and equals the normalised location; a
\* target that is not empty and normalises to the empty text is always loaded,
\* once, wherever the browser is.
C3_NoGetWhenEqualNonEmpty ==
  pc = "nav_done" =>
    /\ Falsy(target_url) => gets = <<>>
    /\ Normalize(target_url) # <<>> /\ Normalize(target_url) = nav_current
         => gets = <<>>
    /\ ~Falsy(target_url) /\ Normalize(target_url) = <<>> => gets = <<target_url>>

\* C3 witness: a call returned without a load because the browser was at the
\* target up to its query and trailing "/".
C3_Witness ==
  /\ pc = "nav_done" /\ target_url = <<"a", "?", "a">> /\ current_url = <<"a", "/">>
  /\ gets = <<>>

\* The values in a sequence.
Range(s) == {s[i] : i \in 1..Len(s)}

\* C4: in a run with an empty email or password nothing is ever sent to the
\* browser (no read, load, fill, key or click), the run never gets past
\* login_kream's test, and it ends with the RuntimeError of that test passed
\* on to the caller of crawl_product.
C4_NoCredentialsNoBrowser ==
  email = "" \/ password = "" =>
    /\ ~browser_used /\ gets = <<>> /\ fills = 0 /\ submits = 0 /\ clicks = <<>>
    /\ pc \in {"crawl_start", "login_check", "crawl_finally", "raised"}
    /\ pc \in {"crawl_finally", "raised"} => err = ErrNoCredentials

\* C4 witness: a run with an email and no password has ended with the error.
C4_Witness ==
  /\ pc = "raised" /\ email = "e" /\ password = "" /\ err = ErrNoCredentials
  /\ ~browser_used

\* C5: once the wait for the button or for the row container has failed, the
\* run only goes through crawl_product's finally to its caller with that error:
\* scrape_trade_history does not return, save_to_excel is not called, nothing is
\* written, and after a missing button the scrape is not even begun.
C5_RequiredElementAborts ==
  err = ErrNoButton \/ (err = "TimeoutException" /\ "scrape" \in Range(steps)) =>
    /\ pc \in {"crawl_finally", "raised"}
    /\ saved = <<>> /\ "save" \notin Range(steps) /\ ~result.returned /\ records = <<>>
    /\ err = ErrNoButton => "scrape" \notin Range(steps) /\ "modal_wait" \notin Range(steps)

\* C5 witness: a run whose wait for the row container timed out has ended.
C5_Witness ==
  /\ pc = "raised" /\ err = "TimeoutException" /\ "scrape" \in Range(steps)
  /\ saved = <<>>

\* A row with three cells, none of them blank.
WellFormed(row) ==
  /\ ~row.stale /\ Len(row.cells) = NeededCells
  /\ \A i \in 1..NeededCells : Strip(row.cells[i]) # <<>>

\* C6: when the wait for the modal's text has timed out, the run goes on to the
\* scrape with no error; and when the container then holds N rows that are all
\* well formed and no more would load, the scrape returns N records, the
\* record of each row in order.
C6_ModalTimeoutIsSoft ==
  "modal" \in Range(soft) =>
    /\ steps[Len(steps)] = "modal_wait" => pc = "scrape_container" /\ err = "none"
    /\ result.returned /\ dom_lazy = 0 /\ (\A i \in 1..Len(rows) : WellFormed(rows[i]))
         => /\ err = "none"
            /\ Len(result.records) = Len(rows)
            /\ \A i \in 1..Len(rows) :
                 result.records[i] = [size |-> Strip(rows[i].cells[1]),
                              price |-> Strip(rows[i].cells[2]),
                              date |-> Strip(rows[i].cells[3])]

\* C6 witness: a run in which the modal was never confirmed has scraped and
\* saved the two records of a container with two trade rows.
C6_Witness ==
  /\ pc = "done" /\ "modal" \in Range(soft) /\ dom_lazy = 0
  /\ rows = <<TradeRow, TradeRow>> /\ Len(result.records) = 2
  /\ saved = <<result.records>>

\* C7 as stated: the scrape covers the rows of the fixed point of the row
\* count: the rows rendered at its first read and those that scrolling to the
\* bottom would still render.
C7_ScrapesFixedPoint ==
  pc = "save" => Len(rows) = Len(dom_rows) + dom_lazy

\* C8 as stated: no record has an empty size, price or date.
C8_NoBlankField ==
  \A i \in 1..Len(records) :
    records[i].size # <<>> /\ records[i].price # <<>> /\ records[i].date # <<>>

\* What C9 says a row gives: the stripped texts of its cells that are not
\* empty; a record of the first three when there are three, else nothing.
ClaimedRowRecords(row) ==
  LET texts == SelectSeq([i \in 1..Len(row.cells) |-> Strip(row.cells[i])],
                         LAMBDA t : t # <<>>)
  IN  IF Len(texts) < 3 THEN <<>>
      ELSE <<[size |-> texts[1], price |-> texts[2], date |-> texts[3]]>>

RECURSIVE ClaimedRecords(_)
ClaimedRecords(rs) ==
  IF rs = <<>> THEN <<>> ELSE ClaimedRowRecords(Head(rs)) \o ClaimedRecords(Tail(rs))

\* C9 as stated: for rows none of which raises, the scrape returns, row by row,
\* the record of the first three non-empty texts of a row that has three, and
\* nothing for a row with fewer.
C9_FirstThreeNonEmpty ==
  pc = "save" /\ (\A i \in 1..Len(rows) : ~rows[i].stale)
    => result.records = ClaimedRecords(rows)

\* The rows that give a record: those that do not raise and are not skipped.
Yielding(row) == ~row.stale /\ RowRecords(row) # <<>>

\* C10: a row that raises ends neither the loop nor the scrape: the only error
\* of a scrape is that of the wait for the container, before any row is read;
\* and the scrape returns the records of the rows that give one, the rows that
\* raise left out, in the order of the rows.
C10_RowErrorsSkipped ==
  /\ err # "none" => rows = <<>> /\ idx = 0 /\ ~result.returned
  /\ pc = "save" =>
       LET kept == SelectSeq(rows, Yielding)
       IN  result.records = [i \in 1..Len(kept) |-> RowRecords(kept[i])[1]]

\* C10 witness: the scrape of a stale row followed by a trade row has returned
\* the record of the trade row.
C10_Witness ==
  /\ pc = "save" /\ rows = <<StaleRow, TradeRow>>
  /\ result.records = <<[size |-> <<"1">>, price |-> <<"2">>, date |-> <<"3">>]>>

\* C11: when the wait after driver.get has timed out, _navigate_if_needed has
\* returned to its caller with no error, after exactly one driver.get, of the
\* target, and the location is still not the normalised target.
C11_NavigationTimeoutIsSoft ==
  "navigation" \in Range(soft) =>
    /\ pc = "nav_done" /\ err = "none"
    /\ gets = <<target_url>>
    /\ Normalize(current_url) # Normalize(target_url)

\* C11 witness: a load that was bounced to the login page has timed out and
\* the call has returned.
C11_Witness ==
  /\ pc = "nav_done" /\ soft = <<"navigation">> /\ target_url = <<"a">>
  /\ current_url = LoginUrl /\ gets = <<target_url>>

\* C12: once save_to_excel has been called with an empty list, no file has
\* been written and there is no error: the run ends normally.
C12_EmptySaveIsNoOp ==
  "save" \in Range(steps) /\ result.records = <<>> =>
    /\ saved = <<>> /\ err = "none"
    /\ pc \in {"crawl_finally", "done"}

\* C12 witness: a run that scraped a page with one decorative row and no trade
\* has ended normally with nothing written.
C12_Witness ==
  /\ pc = "done" /\ "save" \in Range(steps) /\ Len(rows) = 1 /\ result.returned
  /\ result.records = <<>> /\ saved = <<>>

\* C13 as stated: whenever the wait after the submit has timed out, logged_in
\* is false and login_kream calls no redirect.
C13_TimeoutMeansStillOnLogin ==
  "login" \in Range(soft) => ~logged_in /\ nav_ret # "login_redirected"

\* C13 as amended: after the wait there is no error; logged_in holds when the
\* wait succeeded, and after a timeout it is whether the location read after
\* the timeout is off the login page; the redirect is called only with
\* logged_in; and when login_kream has returned with logged_in false, it has
\* not raised and its only driver.get calls are loads of the login page.
C13_TerminalCheck ==
  /\ pc = "login_redirect" =>
       /\ err = "none"
       /\ logged_in <=> ~Contains(current_url, LoginMarker)
       /\ "login" \notin Range(soft) => logged_in
  /\ nav_ret = "login_redirected" => logged_in
  /\ pc = "opm_recheck" /\ ~logged_in =>
       /\ err = "none" /\ "login" \in Range(soft)
       /\ \A i \in 1..Len(gets) : gets[i] = LoginUrl

\* C13 witness: login_kream has returned after a timeout with the browser
\* still on the login page, having loaded nothing but the login page.
C13_Witness ==
  /\ pc = "opm_recheck" /\ ~logged_in /\ soft = <<"login">>
  /\ current_url = LoginUrl /\ gets = <<LoginUrl>>

\* The driver.get calls of a login_kream call other than loads of the login page.
RedirectGets == SelectSeq(gets, LAMBDA g : g # LoginUrl)

\* C14: _navigate_if_needed is called from login_kream only with logged_in,
\* and with the redirect target when one is given, else the product page; when
\* login_kream has returned with logged_in, that call was made, and it loaded
\* the target once, or not at all when the browser already was at the target
\* up to normalisation.
C14_PostLoginRedirect ==
  LET target == IF redirect_to \in {None, <<>>} THEN product_url ELSE redirect_to
  IN  /\ nav_ret = "login_redirected" => logged_in /\ target_url = target
      /\ pc = "opm_recheck" /\ logged_in /\ target # <<>> =>
           /\ nav_ret = "login_redirected"
           /\ RedirectGets =
                IF nav_current = Normalize(target) THEN <<>> ELSE <<target>>
      /\ pc = "opm_recheck" /\ logged_in /\ target = <<>> => RedirectGets = <<>>

\* C14 witness: with no redirect target, login_kream has returned without
\* loading the product page, the browser being on it but for the query.
C14_Witness ==
  /\ pc = "opm_recheck" /\ logged_in /\ redirect_to = None
  /\ product_url = ProductUrl \o <<"?", "q">> /\ target_url = product_url
  /\ current_url = ProductUrl /\ RedirectGets = <<>>

\* C15: the inputs are filled once, and once more exactly when the email read
\* back differs from the email or the password read back is empty; RETURN is
\* then sent once, whatever was read back, and never again.
C15_RefillAtMostOnce ==
  /\ fills <= 2 /\ submits <= 1
  /\ pc \in {"login_submit", "login_wait", "login_redirect"} =>
       /\ fills = IF email_val # email \/ pw_val = "" THEN 2 ELSE 1
       /\ submits = IF pc = "login_submit" THEN 0 ELSE 1
  /\ pc \in {"login_check", "login_link", "login_ensure", "login_form", "login_fill"}
       => fills = 0 /\ submits = 0

\* C15 witness: the form has been submitted after a second fill, the page
\* having emptied the password input.
C15_Witness ==
  /\ pc = "login_wait" /\ email_val = email /\ pw_val = "" /\ fills = 2
  /\ submits = 1

\* The row counts scrape_trade_history has observed: one, from its single
\* find_elements call.
PollCounts ==
  IF pc \in {"scrape_container", "scrape_rows"} THEN <<>> ELSE <<Len(rows)>>

\* C16 as stated: the scrape returns only after two consecutive polls with the
\* same row count, and not while the page would still render rows.
C16_TerminatesOnlyWhenStable ==
  result.returned =>
    /\ Len(PollCounts) >= 2
    /\ PollCounts[Len(PollCounts)] = PollCounts[Len(PollCounts) - 1]
    /\ dom_lazy = 0

\* C17 as stated: an exception of the fallback click reaches the caller as it
\* was raised, so the "could not find" error is never the outcome of a run in
\* which the fallback click was made.
C17_FallbackErrorUnchanged ==
  err = ErrNoButton => \A i \in 1..Len(clicks) : clicks[i].how # "dom"

\* The steps of the top-level flow, in the order of open_product_and_modal and
\* crawl_product.
StepOrder == <<"login", "recheck", "click", "modal_wait", "scrape", "save">>

\* C18: the steps begun are a prefix of login, re-check, click, modal wait,
\* scrape, export, so each is begun at most once and in that order; while a
\* step runs, no later step has begun; the export is begun only after the
\* scrape has returned.
C18_StrictStepOrder ==
  /\ Len(steps) <= Len(StepOrder)
  /\ steps = SubSeq(StepOrder, 1, Len(steps))
  /\ "save" \in Range(steps) => result.returned
  /\ pc \in {"login_check", "login_link", "login_ensure", "login_form", "login_fill",
             "login_submit", "login_wait", "login_redirect", "login_redirected",
             "opm_recheck"} => steps = <<"login">>
  /\ pc \in {"nav_check", "nav_wait"} =>
       steps = IF nav_ret = "login_redirected" THEN <<"login">>
               ELSE <<"login", "recheck">>
  /\ pc = "opm_click" => Len(steps) = 2
  /\ pc = "click_activate" => Len(steps) = 3
  /\ pc = "modal_wait" => Len(steps) = 3
  /\ pc = "scrape_container" => Len(steps) = 4
  /\ pc \in {"scrape_rows", "scrape_row"} => Len(steps) = 5 /\ ~result.returned
  /\ pc = "save" => Len(steps) = 5 /\ result.returned

\* C18 witness: a run has gone through all six steps and written the records.
C18_Witness ==
  /\ pc = "done" /\ steps = StepOrder /\ saved = <<result.records>>
  /\ result.records # <<>>

\* C19: the step of the login link always goes on to the step that ensures
\* the login page, without an error; that step loads the login page exactly
\* when the location does not hold the login marker, at most once, and goes on
\* to the form lookup.
C19_MissingLinkIsNotAnError ==
  [][/\ pc = "login_link" => pc' = "login_ensure" /\ err' = "none" /\ gets' = gets
     /\ pc = "login_ensure" =>
          /\ pc' = "login_form" /\ err' = "none"
          /\ gets' = IF Contains(current_url, LoginMarker) THEN gets
                      ELSE Append(gets, LoginUrl)]_vars

\* C19 witness: with the browser left on the product page by the step of the
\* login link, the login page has been loaded and the form lookup is next.
C19_Witness ==
  /\ pc = "login_form" /\ err = "none" /\ gets = <<LoginUrl>>
  /\ current_url = LoginUrl

\* C20: when crawl_product has ended, normally or with an exception, it has
\* called driver.quit() once if it made the driver and never if the driver was
\* passed in; before its end it has not called it.
C20_QuitsIffOwnDriver ==
  IF pc \in {"done", "raised"}
    THEN quits = IF own_driver THEN 1 ELSE 0
    ELSE quits = 0

\* C20 witness: a run with its own driver has ended with the "could not find"
\* error and closed the browser once.
C20_Witness ==
  /\ pc = "raised" /\ err = ErrNoButton /\ own_driver /\ quits = 1

====
